---- MODULE Spec2Model ----
(***************************************************************************)
(* State-machine model of the letter board (src/App.tsx): the sparse grid, *)
(* the undo history, the drag-and-drop controller and the text extraction  *)
(* functions that decide what is spoken.                                   *)
(*                                                                         *)
(* A GridState is a function whose DOMAIN is the set of occupied cell      *)
(* indices (the keys of the JS object); a tile is a record [char, id].     *)
(* A text is a sequence of one-character strings.                          *)
(***************************************************************************)
EXTENDS Integers, Sequences, FiniteSets

(* ------------------------------ bounds --------------------------------- *)

\* Events handled in one session (a session of the program is unbounded).
MaxSteps == 7

\* The number of events handled in a session that uses one keyboard key.
MaxStepsOneKey == 9

(* ------------------------- program constants --------------------------- *)

\* src/App.tsx:16 imports these from ./constants; the board is scaled down.
GRID_COLS == 4

GRID_ROWS == 2

TOTAL_CELLS == GRID_COLS * GRID_ROWS

\* The characters of the keyboard keys (KEYBOARD_LAYOUT, flattened).
KEYBOARD_LAYOUT == {"k", "o"}

Cells == 0 .. (TOTAL_CELLS - 1)

\* The side of a cell of the board, the gap between two cells (and between the
\* board and the keyboard area), and the height of the keyboard area, in units
\* of the screen.
CellSide == 1
CellGap == 2
AreaHeight == 2

(* ------------------------------ values --------------------------------- *)

\* JS null, for the active drag payload and the captured size.
Null == [null |-> TRUE]

\* The empty GridState, {}.
EmptyGrid == [k \in {} |-> Null]

\* state[i] is truthy: cell i is occupied.
Has(state, i) == i \in DOMAIN state

\* delete state[i] on a copy of state.
Delete(state, i) == [k \in (DOMAIN state) \ {i} |-> state[k]]

\* state[i] = item on a copy of state.
Put(state, i, item) ==
    [k \in (DOMAIN state) \cup {i} |-> IF k = i THEN item ELSE state[k]]

\* The id of a placed tile: `placed-${char}-${Date.now()}-${Math.random()}`.
\* The pair (Date.now(), Math.random()) is modelled by the counter n.
NewIdReused(char, n) == [kind |-> "placed", char |-> char, n |-> 0]

NewId(char, n) == [kind |-> "placed", char |-> char, n |-> n]

\* The id of a keyboard key's draggable: `keyboard-${char}`.
KeyboardId(char) == [kind |-> "keyboard", char |-> char]

\* The fallback id of a moved tile: `item-${Date.now()}`.
ItemId(n) == [kind |-> "item", n |-> n]

\* The payload of the draggable rendered in occupied cell i.
GridDragData(state, i) ==
    [origin |-> "grid", char |-> state[i].char, id |-> state[i].id, index |-> i]

\* A keyboard payload that carries a source index as well.
KeyboardDragDataIndexed(char) ==
    [origin |-> "keyboard", char |-> char, id |-> KeyboardId(char), index |-> 0]

\* The payload of the draggable of keyboard key char (its index is undefined).
KeyboardDragData(char) ==
    [origin |-> "keyboard", char |-> char, id |-> KeyboardId(char)]

\* data.index !== undefined
HasIndex(data) == "index" \in DOMAIN data

\* The drop targets the board renders: one per cell, and the keyboard area.
CellTarget(i) == [id |-> "cell", index |-> i]

KeyboardAreaTarget == [id |-> "keyboard-area"]

NoOver == Null

OverTargets == {NoOver, KeyboardAreaTarget} \cup {CellTarget(i) : i \in Cells}

(* -------------------------- text extraction ---------------------------- *)

RECURSIVE ScanStart(_, _, _)
\* while (start > 0 && floor((start-1)/GRID_COLS) === row && state[start-1]) start--
ScanStart(state, row, start) ==
    IF start > 0 /\ ((start - 1) \div GRID_COLS) = row /\ Has(state, start - 1)
    THEN ScanStart(state, row, start - 1)
    ELSE start

RECURSIVE ScanEnd(_, _, _)
\* while (end < TOTAL_CELLS-1 && floor((end+1)/GRID_COLS) === row && state[end+1]) end++
ScanEnd(state, row, end) ==
    IF end < TOTAL_CELLS - 1 /\ ((end + 1) \div GRID_COLS) = row /\ Has(state, end + 1)
    THEN ScanEnd(state, row, end + 1)
    ELSE end

\* A scan that does not test the row of the next cell.
GetConnectedWordNoRow(state, index) ==
    IF ~Has(state, index) THEN <<>>
    ELSE LET RECURSIVE L(_), R(_)
             L(s) == IF s > 0 /\ Has(state, s - 1) THEN L(s - 1) ELSE s
             R(e) == IF e < TOTAL_CELLS - 1 /\ Has(state, e + 1) THEN R(e + 1) ELSE e
             start == L(index)
             end == R(index)
         IN [k \in 1 .. (end - start + 1) |-> state[start + k - 1].char]

getConnectedWord(state, index) ==
    IF ~Has(state, index) THEN <<>>
    ELSE LET row == index \div GRID_COLS
             start == ScanStart(state, row, index)
             end == ScanEnd(state, row, index)
         IN [k \in 1 .. (end - start + 1) |-> state[start + k - 1].char]

RECURSIVE RowTextNoCollapse(_, _, _, _)
\* A row loop that appends a space for every empty cell after the first tile.
RowTextNoCollapse(state, r, c, rowText) ==
    IF c >= GRID_COLS THEN rowText
    ELSE LET idx == r * GRID_COLS + c
             next == IF Has(state, idx)
                     THEN Append(rowText, state[idx].char)
                     ELSE IF Len(rowText) > 0
                          THEN Append(rowText, " ")
                          ELSE rowText
         IN RowTextNoCollapse(state, r, c + 1, next)

RECURSIVE RowText(_, _, _, _)
\* The inner loop of getAllText over the columns c .. GRID_COLS-1 of row r.
RowText(state, r, c, rowText) ==
    IF c >= GRID_COLS THEN rowText
    ELSE LET idx == r * GRID_COLS + c
             next == IF Has(state, idx)
                     THEN Append(rowText, state[idx].char)
                     ELSE IF Len(rowText) > 0 /\ rowText[Len(rowText)] # " "
                          THEN Append(rowText, " ")
                          ELSE rowText
         IN RowText(state, r, c + 1, next)

\* No trimming at all.
TrimNone(t) == t

RECURSIVE Trim(_)
\* String.prototype.trim on a text whose only white space is " ".
Trim(t) ==
    IF Len(t) = 0 THEN t
    ELSE IF t[1] = " " THEN Trim(Tail(t))
    ELSE IF t[Len(t)] = " " THEN Trim(SubSeq(t, 1, Len(t) - 1))
    ELSE t

RECURSIVE Join(_)
\* rows.join('. ')
Join(rows) ==
    IF Len(rows) = 0 THEN <<>>
    ELSE IF Len(rows) = 1 THEN rows[1]
    ELSE rows[1] \o <<".", " ">> \o Join(Tail(rows))

RECURSIVE AllRows(_, _)
\* The outer loop of getAllText over the rows r .. GRID_ROWS-1.
AllRows(state, r) ==
    IF r >= GRID_ROWS THEN <<>>
    ELSE LET cleanRow == Trim(RowText(state, r, 0, <<>>))
         IN (IF Len(cleanRow) > 0 THEN <<cleanRow>> ELSE <<>>) \o AllRows(state, r + 1)

getAllText(state) == Join(AllRows(state, 0))

(* ------------------------------- state --------------------------------- *)

VARIABLES
    gridState,       \* useState<GridState>({})
    history,         \* useState<GridState[]>([])
    activeDragData,  \* useState<DragData | null>(null)
    dragSize,        \* useState<{width, height} | null>(null)
    idSeed,          \* the next value of the pair (Date.now(), Math.random())
    spoken,          \* the texts passed to speakText by the last handler, in order
    sounds,          \* the cues passed to playSound by the last handler, in order
    lastOp,          \* the last event handled, with its inputs
    created,         \* the ids of all tiles cloned so far in the session
    timeline,        \* the GridStates after each accepted, not undone mutation
    undoRun,         \* the effective undos since the last accepted mutation
    steps,           \* the number of events handled so far
    probe,           \* the last call of a pure function made on its own
    page             \* the document and the position of the entry script in it

vars == <<gridState, history, activeDragData, dragSize, idSeed, spoken, sounds,
          lastOp, created, timeline, undoRun, steps, probe, page>>

\* The page once the entry script has rendered <App /> into #root.
Mounted ==
    [pc |-> "done", hasRoot |-> TRUE, rootElement |-> TRUE, listening |-> TRUE,
     errorDivs |-> <<>>, innerText |-> <<>>, rendered |-> TRUE]

Init ==
    /\ gridState = EmptyGrid
    /\ history = <<>>
    /\ activeDragData = Null
    /\ dragSize = Null
    /\ idSeed = 1
    /\ spoken = <<>>
    /\ sounds = <<>>
    /\ lastOp = [kind |-> "init"]
    /\ created = {}
    /\ timeline = <<EmptyGrid>>
    /\ undoRun = 0
    /\ steps = 0
    /\ probe = [kind |-> "none"]
    /\ page = Mounted

(* --------------------------- toolbar handlers -------------------------- *)

\* The toolbar buttons stay enabled while a drag is active: no handler tests
\* activeDragData.

\* previous = history[history.length - 1]
UndoFirst(h) == h[1]

UndoPrevious(h) == h[Len(h)]

\* prev.slice(0, -1)
UndoRest(h) == SubSeq(h, 1, Len(h) - 1)

handleUndo ==
    /\ lastOp' = [kind |-> "undo"]
    /\ spoken' = <<>>
    /\ IF Len(history) = 0
       THEN /\ sounds' = <<>>
            /\ UNCHANGED <<gridState, history, timeline, undoRun>>
       ELSE /\ history' = UndoRest(history)
            /\ gridState' = UndoPrevious(history)
            /\ sounds' = <<"rustle">>
            /\ timeline' = SubSeq(timeline, 1, Len(timeline) - 1)
            /\ undoRun' = undoRun + 1
    /\ UNCHANGED <<activeDragData, dragSize, idSeed, created>>

\* A test that finds no grid empty.
IsEmptyNever(state) == FALSE

\* Object.keys(gridState).length === 0
IsEmpty(state) == DOMAIN state = {}

\* A clear that leaves the history as it is.
ClearHistoryKept(h, state) == h

\* setHistory(prev => [...prev, gridState])
ClearHistory(h, state) == Append(h, state)

handleClear ==
    /\ lastOp' = [kind |-> "clear", before |-> gridState]
    /\ spoken' = <<>>
    /\ IF IsEmpty(gridState)
       THEN /\ sounds' = <<>>
            /\ UNCHANGED <<gridState, history, timeline, undoRun>>
       ELSE /\ history' = ClearHistory(history, gridState)
            /\ gridState' = EmptyGrid
            /\ sounds' = <<"rustle">>
            /\ timeline' = Append(timeline, EmptyGrid)
            /\ undoRun' = 0
    /\ UNCHANGED <<activeDragData, dragSize, idSeed, created>>

handleSpeakAll ==
    /\ lastOp' = [kind |-> "speakAll"]
    /\ spoken' = (IF Len(getAllText(gridState)) > 0
                  THEN <<getAllText(gridState)>> ELSE <<>>)
    /\ sounds' = <<>>
    /\ UNCHANGED <<gridState, history, activeDragData, dragSize, idSeed, created,
                   timeline, undoRun>>

(* ----------------------------- drag start ------------------------------ *)

\* The payloads of the draggables the board renders for a GridState.
Draggables(state) ==
    {GridDragData(state, i) : i \in (DOMAIN state) \cap Cells}
        \cup {KeyboardDragData(c) : c \in KEYBOARD_LAYOUT}

\* A lift that sounds the same for both origins.
StartCuesGrab(data) == <<"grab">>

\* if (data.origin === 'grid') playSound('rustle') else playSound('grab')
StartCues(data) == IF data.origin = "grid" THEN <<"rustle">> ELSE <<"grab">>

\* The gesture layer starts a drag only when none is active. The element looked
\* up by id may or may not be found, so the size is captured or left null.
handleDragStart ==
    /\ activeDragData = Null
    /\ \E data \in Draggables(gridState), size \in {Null, [width |-> 1, height |-> 1]} :
          /\ activeDragData' = data
          /\ dragSize' = size
          /\ sounds' = StartCues(data)
          /\ lastOp' = [kind |-> "dragStart", data |-> data]
    /\ spoken' = <<>>
    /\ UNCHANGED <<gridState, history, idSeed, created, timeline, undoRun>>

(* ------------------------------ drag end ------------------------------- *)

\* Delete branch: newState = {...prev}; if (data.index !== undefined) delete it.
DeleteTileAll(state, data) == EmptyGrid

DeleteTile(state, data) ==
    IF HasIndex(data) THEN Delete(state, data.index) ELSE state

\* data.index !== targetIndex: the drop is not back onto the source cell.
IsOtherCellAlways(data, targetIndex) == TRUE

IsOtherCell(data, targetIndex) == data.index # targetIndex

\* data.id || `item-${Date.now()}`
MovedId(data, n) == IF "id" \in DOMAIN data THEN data.id ELSE ItemId(n)

\* A move that drops the displaced tile instead of putting it in the source cell.
MoveTileNoBackfill(state, data, targetIndex, n) ==
    Put(Delete(state, data.index), targetIndex,
        [char |-> data.char, id |-> MovedId(data, n)])

\* Move branch: delete nextState[data.index]; backfill it with existingItem if
\* there is one; write the dragged tile at targetIndex.
MoveTile(state, data, targetIndex, n) ==
    LET vacated == Delete(state, data.index)
        backfilled == IF Has(state, targetIndex)
                      THEN Put(vacated, data.index, state[targetIndex])
                      ELSE vacated
    IN Put(backfilled, targetIndex, [char |-> data.char, id |-> MovedId(data, n)])

\* Clone branch: write a fresh tile at targetIndex.
CloneTile(state, data, targetIndex, n) ==
    Put(state, targetIndex, [char |-> data.char, id |-> NewId(data.char, n)])

\* A speech choice that reads the word from the grid before the drop.
DropSpeechStale(state, nextState, data, targetIndex) ==
    LET word == getConnectedWord(state, targetIndex)
    IN IF Len(word) >= 2 THEN word ELSE <<data.char>>

\* word = getConnectedWord(nextState, targetIndex); speak it if it has two
\* characters or more, else speak data.char.
DropSpeech(state, nextState, data, targetIndex) ==
    LET word == getConnectedWord(nextState, targetIndex)
    IN IF Len(word) >= 2 THEN word ELSE <<data.char>>

\* A delete branch taken for a payload of either origin.
IsDeleteAnyOrigin(data, over) == over.id = "keyboard-area"

\* data.origin === 'grid' && over.id === 'keyboard-area'
IsDelete(data, over) == data.origin = "grid" /\ over.id = "keyboard-area"

\* The part of handleDragEnd after the unconditional effects, for the closure's
\* gridState, the payload, the drop target and the id seed:
\* [grid: the GridState to commit, push: whether the closure's gridState is
\*  appended to history, speak: the speakText calls, clone: whether a tile was
\*  cloned].
DragEndOutcome(state, data, over, n) ==
    LET keep == [grid |-> state, push |-> FALSE, speak |-> <<>>, clone |-> FALSE]
    IN IF over = NoOver THEN keep
       ELSE IF IsDelete(data, over)
       THEN [grid |-> DeleteTile(state, data), push |-> TRUE, speak |-> <<>>,
             clone |-> FALSE]
       ELSE IF over.id = "cell" /\ "index" \in DOMAIN over
       THEN LET targetIndex == over.index
            IN IF data.origin = "grid" /\ HasIndex(data)
               THEN IF IsOtherCell(data, targetIndex)
                    THEN LET nextState == MoveTile(state, data, targetIndex, n)
                         IN [grid |-> nextState, push |-> TRUE,
                             speak |-> <<DropSpeech(state, nextState, data, targetIndex)>>,
                             clone |-> FALSE]
                    ELSE keep
               ELSE IF data.origin = "keyboard"
               THEN LET nextState == CloneTile(state, data, targetIndex, n)
                    IN [grid |-> nextState, push |-> TRUE,
                        speak |-> <<DropSpeech(state, nextState, data, targetIndex)>>,
                        clone |-> TRUE]
               ELSE keep
       ELSE keep

\* The payload read at drag end (active.data.current) is the one recorded at
\* drag start, also when an undo or a clear has changed the board in between.
\* A drag end that leaves the active payload in place.
DragKept == activeDragData

\* setActiveDragData(null)
DragCleared == Null

DragEndOnto(targets) ==
    /\ activeDragData # Null
    /\ \E over \in targets :
          LET data == activeDragData
              out == DragEndOutcome(gridState, data, over, idSeed)
          IN /\ activeDragData' = DragCleared
             /\ dragSize' = Null
             /\ sounds' = <<"drop">>
             /\ gridState' = out.grid
             /\ history' = (IF out.push THEN Append(history, gridState) ELSE history)
             /\ timeline' = (IF out.push THEN Append(timeline, out.grid) ELSE timeline)
             /\ undoRun' = (IF out.push THEN 0 ELSE undoRun)
             /\ spoken' = out.speak
             /\ idSeed' = (IF out.clone THEN idSeed + 1 ELSE idSeed)
             /\ created' = (IF out.clone
                            THEN created \cup {out.grid[over.index].id}
                            ELSE created)
             /\ lastOp' = [kind |-> "dragEnd", data |-> data, over |-> over,
                           existing |-> (over # NoOver /\ over.id = "cell"
                                           /\ "index" \in DOMAIN over
                                           /\ Has(gridState, over.index))]

\* The drag ends over one of the drop targets the board renders, or over none.
handleDragEnd == DragEndOnto(OverTargets)

(* ------------------------------- click --------------------------------- *)

\* A click that always speaks the character of the tile clicked.
ClickSpeechChar(state, index, char) == <<<<char>>>>

\* The speakText calls of handleGridClick(index, char): the text of the whole
\* board, if not empty, when the cell is the start of a word, else char.
ClickSpeech(state, index, char) ==
    LET col == index % GRID_COLS
        isStartOfWord == col = 0 \/ ~Has(state, index - 1)
        fullText == getAllText(state)
    IN IF isStartOfWord
       THEN (IF Len(fullText) > 0 THEN <<fullText>> ELSE <<>>)
       ELSE <<<<char>>>>

\* A clean click on the tile rendered in occupied cell index.
handleGridClick ==
    /\ \E index \in (DOMAIN gridState) \cap Cells :
          /\ spoken' = ClickSpeech(gridState, index, gridState[index].char)
          /\ lastOp' = [kind |-> "click", index |-> index]
    /\ sounds' = <<>>
    /\ UNCHANGED <<gridState, history, activeDragData, dragSize, idSeed, created,
                   timeline, undoRun>>

(* ---------------------------- specification ---------------------------- *)

\* One more event is handled, while the session is within its bound.
Tick == steps < MaxSteps /\ steps' = steps + 1 /\ UNCHANGED <<probe, page>>

Next ==
    \/ Tick /\ handleDragStart
    \/ Tick /\ handleDragEnd
    \/ Tick /\ handleGridClick
    \/ Tick /\ handleUndo
    \/ Tick /\ handleClear
    \/ Tick /\ handleSpeakAll

Spec == Init /\ [][Next]_vars

\* The sessions in which the toolbar and the tiles are only used between drags:
\* no undo, clear, speak-all or click while a drag is active.
NextSerial ==
    \/ Tick /\ handleDragStart
    \/ Tick /\ handleDragEnd
    \/ Tick /\ activeDragData = Null /\ handleGridClick
    \/ Tick /\ activeDragData = Null /\ handleUndo
    \/ Tick /\ activeDragData = Null /\ handleClear
    \/ Tick /\ activeDragData = Null /\ handleSpeakAll

SpecSerial == Init /\ [][NextSerial]_vars

(* ------------- longer sessions with one keyboard key ------------------- *)

\* The sessions that only use the keyboard key "k", and in which the element of
\* the dragged item is not found by id (no size is captured), up to a larger
\* number of events.
TickOneKey ==
    steps < MaxStepsOneKey /\ steps' = steps + 1 /\ UNCHANGED <<probe, page>>

NextOneKey ==
    \/ TickOneKey /\ handleDragStart /\ activeDragData'.char = "k" /\ dragSize' = Null
    \/ TickOneKey /\ handleDragEnd
    \/ TickOneKey /\ handleGridClick
    \/ TickOneKey /\ handleUndo
    \/ TickOneKey /\ handleClear
    \/ TickOneKey /\ handleSpeakAll

SpecOneKey == Init /\ [][NextOneKey]_vars

(* ------------- drag end with any drop target data ---------------------- *)

\* Cell drop targets the board does not render: an index before the first cell,
\* one past the last cell, and a cell target whose data carries no index.
ForeignTargets == {CellTarget(0 - 1), CellTarget(TOTAL_CELLS), [id |-> "cell"]}

\* handleDragEnd as a function of its event: any of the rendered targets, or a
\* cell target with an index out of range or with none.
handleDragEndAnyTarget == DragEndOnto(OverTargets \cup ForeignTargets)

NextAnyTarget ==
    \/ Tick /\ handleDragStart
    \/ Tick /\ handleDragEndAnyTarget
    \/ Tick /\ handleGridClick
    \/ Tick /\ handleUndo
    \/ Tick /\ handleClear
    \/ Tick /\ handleSpeakAll

SpecAnyTarget == Init /\ [][NextAnyTarget]_vars

(* ------------- the entry script, then the application ------------------ *)

\* The document before the entry script runs: it has an element #root or not.
NewPage(hasRoot) ==
    [pc |-> "lookup", hasRoot |-> hasRoot, rootElement |-> FALSE,
     listening |-> FALSE, errorDivs |-> <<>>, innerText |-> <<>>,
     rendered |-> FALSE]

InitIndex ==
    /\ gridState = EmptyGrid
    /\ history = <<>>
    /\ activeDragData = Null
    /\ dragSize = Null
    /\ idSeed = 1
    /\ spoken = <<>>
    /\ sounds = <<>>
    /\ lastOp = [kind |-> "init"]
    /\ created = {}
    /\ timeline = <<EmptyGrid>>
    /\ undoRun = 0
    /\ steps = 0
    /\ probe = [kind |-> "none"]
    /\ \E hasRoot \in BOOLEAN : page = NewPage(hasRoot)

\* The application does not run while the entry script does.
AppFrame ==
    UNCHANGED <<gridState, history, activeDragData, dragSize, idSeed, spoken, sounds,
                lastOp, created, timeline, undoRun, steps, probe>>

\* const rootElement = document.getElementById('root')
LookupRoot ==
    /\ page.pc = "lookup"
    /\ page' = [page EXCEPT !.pc = "listen", !.rootElement = page.hasRoot]
    /\ AppFrame

\* window.addEventListener('error', ...)
AddErrorListener ==
    /\ page.pc = "listen"
    /\ page' = [page EXCEPT !.pc = "check", !.listening = TRUE]
    /\ AppFrame

\* An uncaught error is not shown by anyone.
ReportErrorUnheard(listening, divs, message) == divs

\* An uncaught error reaches the 'error' listener of the window, if there is
\* one: it appends a div whose text is 'Error: ' + e.message to the body.
ReportError(listening, divs, message) ==
    IF listening THEN Append(divs, <<"Error: ", message>>) ELSE divs

\* if (!rootElement) throw new Error(...): the script ends there, uncaught.
CheckRoot ==
    /\ page.pc = "check"
    /\ page' = IF page.rootElement
                   THEN [page EXCEPT !.pc = "mount"]
                   ELSE [page EXCEPT
                            !.pc = "aborted",
                            !.errorDivs =
                                ReportError(page.listening, page.errorDivs,
                                    "Could not find root element to mount to")]
    /\ AppFrame

\* try { createRoot(rootElement).render(<App />) } catch (e) { innerText = ... }
MountApp ==
    /\ page.pc = "mount"
    /\ \E throws \in BOOLEAN :
          page' = IF throws
                     THEN [page EXCEPT
                              !.pc = "done",
                              !.innerText =
                                  <<"Application failed to mount. Check console.">>]
                     ELSE [page EXCEPT !.pc = "done", !.rendered = TRUE]
    /\ AppFrame

\* The entry script runs to its end; the application handles events once it is
\* rendered.
NextIndex ==
    \/ LookupRoot
    \/ AddErrorListener
    \/ CheckRoot
    \/ MountApp
    \/ Tick /\ page.rendered /\ handleDragStart
    \/ Tick /\ page.rendered /\ handleDragEnd
    \/ Tick /\ page.rendered /\ handleGridClick
    \/ Tick /\ page.rendered /\ handleUndo
    \/ Tick /\ page.rendered /\ handleClear
    \/ Tick /\ page.rendered /\ handleSpeakAll

SpecIndex == InitIndex /\ [][NextIndex]_vars

(* ------------- the text-extraction functions on their own -------------- *)

\* Every GridState over the board's cells: any set of occupied cells, any
\* character in each, and an id of its own for each tile.
AllGrids ==
    UNION {
        {[k \in occupied |-> [char |-> chars[k], id |-> NewId(chars[k], k + 1)]] :
            chars \in [occupied -> KEYBOARD_LAYOUT]} :
        occupied \in SUBSET Cells}

InitText ==
    /\ gridState \in AllGrids
    /\ history = <<>>
    /\ activeDragData = Null
    /\ dragSize = Null
    /\ idSeed = TOTAL_CELLS + 1
    /\ spoken = <<>>
    /\ sounds = <<>>
    /\ lastOp = [kind |-> "init"]
    /\ created = {gridState[k].id : k \in DOMAIN gridState}
    /\ timeline = <<gridState>>
    /\ undoRun = 0
    /\ steps = 0
    /\ probe = [kind |-> "none"]
    /\ page = Mounted

TextFrame ==
    UNCHANGED <<gridState, history, activeDragData, dragSize, idSeed, spoken, sounds,
                lastOp, created, timeline, undoRun, steps, page>>

\* getConnectedWord(gridState, index) is evaluated for an index of the board.
CallConnectedWord ==
    /\ \E index \in Cells :
          probe' = [kind |-> "connectedWord", index |-> index,
                    result |-> getConnectedWord(gridState, index)]
    /\ TextFrame

\* getAllText(gridState) is evaluated.
CallAllText ==
    /\ probe' = [kind |-> "allText", result |-> getAllText(gridState)]
    /\ TextFrame

NextText ==
    \/ CallConnectedWord
    \/ CallAllText

SpecText == InitText /\ [][NextText]_vars

(* ------------- the collision policy on its own ------------------------- *)

\* The droppables in the order they are registered: the cells of the board,
\* then the keyboard area. A collision is identified by its droppable.
DroppableContainers ==
    [k \in 1 .. (TOTAL_CELLS + 1) |->
        IF k <= TOTAL_CELLS THEN CellTarget(k - 1) ELSE KeyboardAreaTarget]

\* The rectangle measured for a droppable: the cells are squares laid out in
\* GRID_COLS columns with a gap between them; the keyboard area lies under the
\* board, after a gap, as wide as the board.
RectOf(d) ==
    IF d.id = "cell"
    THEN [left |-> (d.index % GRID_COLS) * (CellSide + CellGap),
          top |-> (d.index \div GRID_COLS) * (CellSide + CellGap),
          width |-> CellSide, height |-> CellSide]
    ELSE [left |-> 0,
          top |-> GRID_ROWS * (CellSide + CellGap),
          width |-> GRID_COLS * (CellSide + CellGap) - CellGap,
          height |-> AreaHeight]

\* top <= y <= top + height and left <= x <= left + width
isPointWithinRect(point, rect) ==
    /\ rect.top <= point.y /\ point.y <= rect.top + rect.height
    /\ rect.left <= point.x /\ point.x <= rect.left + rect.width

\* pointerWithin: no collision without pointer coordinates, else the droppables
\* whose rectangle contains the pointer. (Its ordering of several hits, by the
\* distance to their corners, is left out: the rectangles here are disjoint.)
pointerWithin(args) ==
    IF args.pointerCoordinates = Null
    THEN <<>>
    ELSE SelectSeq(DroppableContainers,
                   LAMBDA d : isPointWithinRect(args.pointerCoordinates, RectOf(d)))

\* The square of the distance between the centres of two rectangles, in half
\* units (twice the coordinates of the centres).
CenterDistance(a, b) ==
    LET dx == (2 * a.left + a.width) - (2 * b.left + b.width)
        dy == (2 * a.top + a.height) - (2 * b.top + b.height)
    IN dx * dx + dy * dy

\* collisions.sort(sortCollisionsAsc), a stable sort: the collision d is put
\* after the collisions that are not farther than it.
RECURSIVE InsertCollision(_, _, _)
InsertCollision(sorted, d, rect) ==
    IF sorted = <<>>
    THEN <<d>>
    ELSE IF CenterDistance(rect, RectOf(sorted[Len(sorted)]))
                <= CenterDistance(rect, RectOf(d))
    THEN Append(sorted, d)
    ELSE Append(InsertCollision(SubSeq(sorted, 1, Len(sorted) - 1), d, rect),
                sorted[Len(sorted)])

\* closestCenter: every droppable, by the distance from the centre of the
\* collision rectangle (the dragged item) to its centre, nearest first.
RECURSIVE SortByCenter(_, _)
SortByCenter(ds, rect) ==
    IF ds = <<>>
    THEN <<>>
    ELSE InsertCollision(SortByCenter(SubSeq(ds, 1, Len(ds) - 1), rect),
                         ds[Len(ds)], rect)

closestCenter(args) == SortByCenter(DroppableContainers, args.collisionRect)

\* A policy that always takes the nearest centres.
ClosestCenterOnly(args) == closestCenter(args)

customCollisionDetection(args) ==
    LET pointerCollisions == pointerWithin(args)
    IN IF Len(pointerCollisions) > 0 THEN pointerCollisions ELSE closestCenter(args)

\* The positions on the screen: the board, the gaps, the keyboard area and one
\* unit beyond them to the right and below.
ScreenPoints ==
    {[x |-> x, y |-> y] :
        x \in 0 .. (GRID_COLS * (CellSide + CellGap)),
        y \in 0 .. (GRID_ROWS * (CellSide + CellGap) + AreaHeight + 1)}

\* The arguments of a call: the pointer anywhere on the screen, or unknown, and
\* the dragged item, of the size of a cell, anywhere on the screen.
CollisionArgs ==
    {[pointerCoordinates |-> p,
      collisionRect |-> [left |-> c.x, top |-> c.y,
                         width |-> CellSide, height |-> CellSide]] :
        p \in ScreenPoints \cup {Null}, c \in ScreenPoints}

InitCollision ==
    /\ gridState = EmptyGrid
    /\ history = <<>>
    /\ activeDragData = Null
    /\ dragSize = Null
    /\ idSeed = 1
    /\ spoken = <<>>
    /\ sounds = <<>>
    /\ lastOp = [kind |-> "init"]
    /\ created = {}
    /\ timeline = <<EmptyGrid>>
    /\ undoRun = 0
    /\ steps = 0
    /\ page = Mounted
    /\ \E args \in CollisionArgs : probe = [kind |-> "args", args |-> args]

\* customCollisionDetection(args) is evaluated.
CallCollisionDetection ==
    /\ probe.kind = "args"
    /\ probe' = [kind |-> "collision", args |-> probe.args,
                 result |-> customCollisionDetection(probe.args)]
    /\ TextFrame

NextCollision == CallCollisionDetection

SpecCollision == InitCollision /\ [][NextCollision]_vars

(* ------------------------- claims: helpers ----------------------------- *)

\* The ids of the tiles of a GridState.
IdsOf(state) == {state[k].id : k \in DOMAIN state}

\* op is a drag end whose drop target is a grid cell.
OntoCell(op) == op.kind = "dragEnd" /\ op.over # NoOver /\ op.over.id = "cell"

\* op is a drag end of a grid tile onto a grid cell.
GridOntoCell(op) == OntoCell(op) /\ op.data.origin = "grid"

\* op is a drag end of a keyboard key onto a grid cell: a clone.
KeyboardOntoCell(op) == OntoCell(op) /\ op.data.origin = "keyboard"

\* op is a drag end of a grid tile onto the keyboard area: a delete.
GridOntoKeyboardArea(op) ==
    op.kind = "dragEnd" /\ op.over = KeyboardAreaTarget /\ op.data.origin = "grid"

\* The two GridStates agree on every cell outside the set except.
SameOutside(a, b, except) ==
    /\ (DOMAIN a) \ except = (DOMAIN b) \ except
    /\ \A k \in (DOMAIN a) \ except : a[k] = b[k]

(* -------------------------------- C1 ----------------------------------- *)

\* C1: a drag end of a grid tile T (payload sourceIndex s) onto a cell t # s
\* leaves T at t; if t held a tile U before, U is at s afterwards with the same
\* id and char (a swap), otherwise s is empty; every other cell is unchanged.
C1_MoveSwapsOrRelocates ==
    [][GridOntoCell(lastOp') /\ lastOp'.over.index # lastOp'.data.index =>
          LET s == lastOp'.data.index
              t == lastOp'.over.index
          IN /\ Has(gridState', t)
             /\ gridState'[t] = [char |-> lastOp'.data.char, id |-> lastOp'.data.id]
             /\ IF Has(gridState, t)
                THEN Has(gridState', s) /\ gridState'[s] = gridState[t]
                ELSE ~Has(gridState', s)
             /\ SameOutside(gridState, gridState', {s, t})]_vars

\* A grid tile was dropped on another, occupied cell and the two were swapped.
C1_Witness ==
    /\ GridOntoCell(lastOp)
    /\ lastOp.over.index # lastOp.data.index
    /\ lastOp.existing
    /\ Has(gridState, lastOp.data.index)
    /\ Has(gridState, lastOp.over.index)
    /\ gridState[lastOp.over.index].id = lastOp.data.id
    /\ gridState[lastOp.data.index].id # lastOp.data.id

(* -------------------------------- C2 ----------------------------------- *)

\* C2: a drag end of a grid tile onto its own source cell changes neither the
\* GridState nor the History and makes no speak call.
C2_SameCellIsNoOp ==
    [][GridOntoCell(lastOp') /\ lastOp'.over.index = lastOp'.data.index =>
          /\ gridState' = gridState
          /\ history' = history
          /\ spoken' = <<>>]_vars

\* A tile of a board with a non-empty history was dropped back on its own cell.
C2_Witness ==
    /\ GridOntoCell(lastOp)
    /\ lastOp.over.index = lastOp.data.index
    /\ Has(gridState, lastOp.data.index)
    /\ gridState[lastOp.data.index].id = lastOp.data.id
    /\ Len(history) > 0

(* -------------------------------- C3 ----------------------------------- *)

\* C3: a keyboard key dropped on a cell writes a tile whose id is in no cell of
\* the GridState before the drop, in no History snapshot, and is the id of no
\* tile cloned earlier in the session.
C3_CloneIdIsFresh ==
    [][KeyboardOntoCell(lastOp') =>
          LET t == lastOp'.over.index
              newId == gridState'[t].id
          IN /\ Has(gridState', t)
             /\ gridState'[t].char = lastOp'.data.char
             /\ newId \notin IdsOf(gridState)
             /\ \A i \in 1 .. Len(history') : newId \notin IdsOf(history'[i])
             /\ newId \notin created
             /\ \A k \in (DOMAIN gridState') \ {t} : gridState'[k].id # newId]_vars

\* The same character was cloned twice in a row: the last two snapshots differ
\* by a tile of the character just cloned again.
C3_Witness ==
    /\ KeyboardOntoCell(lastOp)
    /\ Len(history) >= 2
    /\ \E u \in DOMAIN history[Len(history)] :
          /\ u \notin DOMAIN history[Len(history) - 1]
          /\ u # lastOp.over.index
          /\ history[Len(history)][u].id.kind = "placed"
          /\ history[Len(history)][u].char = lastOp.data.char
          /\ Has(gridState, u)
          /\ gridState[u] = history[Len(history)][u]

(* -------------------------------- C4 ----------------------------------- *)

\* C4: the History is the sequence of the GridStates that held after each
\* accepted mutation that has not been undone, without the last, and the
\* current GridState is the last: after n mutations and then k <= n undos the
\* GridState is the one that held after mutation n-k (the empty grid when
\* k = n) and the History has n-k entries. An undo on an empty History changes
\* neither.
C4_UndoRestores ==
    /\ [](timeline = history \o <<gridState>>)
    /\ [][lastOp'.kind = "undo" /\ Len(history) = 0 =>
             gridState' = gridState /\ history' = history]_vars

\* Two placements were undone by two undos in a row, back to the empty grid.
C4_Witness ==
    /\ lastOp.kind = "undo"
    /\ undoRun = 2
    /\ Cardinality(created) = 2
    /\ Len(history) = 0
    /\ gridState = EmptyGrid
    /\ steps = 6

(* -------------------------------- C5 ----------------------------------- *)

\* C5: a drag end of a grid tile (payload sourceIndex s) onto the keyboard area
\* empties cell s, leaves every other cell unchanged, appends the GridState
\* before the deletion to the History and makes no speak call.
C5_DeleteRemovesSource ==
    [][GridOntoKeyboardArea(lastOp') =>
          /\ ~Has(gridState', lastOp'.data.index)
          /\ SameOutside(gridState, gridState', {lastOp'.data.index})
          /\ history' = Append(history, gridState)
          /\ spoken' = <<>>]_vars

\* A tile was deleted from a board that keeps another tile.
C5_Witness ==
    /\ GridOntoKeyboardArea(lastOp)
    /\ Len(history) > 0
    /\ Has(history[Len(history)], lastOp.data.index)
    /\ history[Len(history)][lastOp.data.index].id = lastOp.data.id
    /\ ~Has(gridState, lastOp.data.index)
    /\ DOMAIN gridState # {}

(* -------------------------------- C6 ----------------------------------- *)

\* C6: in every reachable state every key of the GridState is a cell index of
\* the board and no two occupied cells hold tiles with the same id (a cell
\* holds at most one tile: the GridState is a function of the cell index).
C6_GridInvariant ==
    /\ DOMAIN gridState \subseteq Cells
    /\ \A a, b \in DOMAIN gridState : a # b => gridState[a].id # gridState[b].id

(* -------------------------------- C7 ----------------------------------- *)

\* C7: every event other than an undo appends exactly the GridState before it
\* to the History when it changes the GridState, and leaves the History as it
\* is when it does not.
C7_PushIffChange ==
    [][lastOp'.kind # "undo" =>
          history' = (IF gridState' # gridState
                      THEN Append(history, gridState)
                      ELSE history)]_vars

(* -------------------------------- C8 ----------------------------------- *)

\* C8: whenever the History is not empty its top snapshot differs from the
\* current GridState.
C8_TopDiffersFromCurrent ==
    Len(history) > 0 => history[Len(history)] # gridState

(* -------------------------------- C9 ----------------------------------- *)

\* op is an accepted drop onto a cell: a clone, or a move to another cell.
AcceptedOntoCell(op) ==
    \/ KeyboardOntoCell(op)
    \/ GridOntoCell(op) /\ op.over.index # op.data.index

\* C9: an accepted drop onto a cell t makes exactly one speak call, with the
\* connected word of the committed GridState at t when that word has two
\* characters or more, and with the dropped character alone otherwise.
C9_OneSpeakPerDrop ==
    [][AcceptedOntoCell(lastOp') =>
          LET word == getConnectedWord(gridState', lastOp'.over.index)
          IN spoken' = <<IF Len(word) >= 2 THEN word ELSE <<lastOp'.data.char>>>>]_vars

\* With tiles on two adjacent cells of a row, a third tile was dropped on the
\* next cell of the row and the three-letter word was spoken.
C9_Witness ==
    /\ KeyboardOntoCell(lastOp)
    /\ lastOp.over.index % GRID_COLS = 2
    /\ ~lastOp.existing
    /\ Len(spoken) = 1
    /\ Len(spoken[1]) = 3
    /\ spoken[1] = <<gridState[lastOp.over.index - 2].char,
                     gridState[lastOp.over.index - 1].char,
                     gridState[lastOp.over.index].char>>

(* -------------------------------- C10 ---------------------------------- *)

\* The cells of the maximal run of occupied cells of index's row around index.
RunOf(state, index) ==
    {j \in Cells :
        /\ j \div GRID_COLS = index \div GRID_COLS
        /\ \A k \in Cells :
              (k >= j /\ k <= index) \/ (k >= index /\ k <= j) => Has(state, k)}

\* The least and the greatest element of a non-empty set of cells.
MinOf(S) == CHOOSE x \in S : \A y \in S : x <= y

MaxOf(S) == CHOOSE x \in S : \A y \in S : x >= y

\* The characters of the run around index, left to right.
RunWord(state, index) ==
    LET run == RunOf(state, index)
    IN [k \in 1 .. Cardinality(run) |-> state[MinOf(run) + k - 1].char]

\* C10: getConnectedWord(state, i) is the empty text when cell i is empty, and
\* otherwise the characters, left to right, of the maximal run of occupied
\* cells of i's row that contains i; every index of a run of n cells gets the
\* same text of n characters.
C10_ConnectedWordIsRowRun ==
    probe.kind = "connectedWord" =>
        IF ~Has(gridState, probe.index)
        THEN probe.result = <<>>
        ELSE /\ probe.result = RunWord(gridState, probe.index)
             /\ \A j \in RunOf(gridState, probe.index) :
                   /\ getConnectedWord(gridState, j) = probe.result
                   /\ Len(getConnectedWord(gridState, j))
                        = Cardinality(RunOf(gridState, probe.index))

\* The word of the last cell of a row was computed while the first cell of the
\* next row is occupied too, and it stops at the end of the row.
C10_Witness ==
    /\ probe.kind = "connectedWord"
    /\ probe.index % GRID_COLS = GRID_COLS - 1
    /\ Has(gridState, probe.index)
    /\ Has(gridState, probe.index - 1)
    /\ Has(gridState, probe.index + 1)
    /\ Len(probe.result) = 2
    /\ probe.result[1] # probe.result[2]

(* -------------------------------- C11 ---------------------------------- *)

\* The columns of row r that hold a tile.
OccupiedCols(state, r) ==
    {c \in 0 .. (GRID_COLS - 1) : Has(state, r * GRID_COLS + c)}

RECURSIVE RefRow(_, _, _)
\* The characters of the tiles of row r in the columns cols, in column order,
\* with one space wherever two successive tiles are not in adjacent columns.
RefRow(state, r, cols) ==
    IF cols = {} THEN <<>>
    ELSE LET c == MinOf(cols)
             rest == cols \ {c}
         IN <<state[r * GRID_COLS + c].char>>
              \o (IF rest # {} /\ MinOf(rest) > c + 1 THEN <<" ">> ELSE <<>>)
              \o RefRow(state, r, rest)

RECURSIVE RefText(_, _)
\* The rows r .. GRID_ROWS-1 that hold a tile, top to bottom, joined by ". ".
RefText(state, r) ==
    IF r >= GRID_ROWS THEN <<>>
    ELSE LET this == RefRow(state, r, OccupiedCols(state, r))
             below == RefText(state, r + 1)
         IN IF this = <<>> THEN below
            ELSE IF below = <<>> THEN this
            ELSE this \o <<".", " ">> \o below

\* C11: getAllText(state) is, for each row top to bottom, the characters of the
\* occupied cells in column order with exactly one space between two occupied
\* runs separated by one or more empty cells, the rows without a tile skipped
\* and the others joined with ". ".
C11_AllTextIsReference ==
    probe.kind = "allText" => probe.result = RefText(gridState, 0)

\* The text of a board was computed whose first row has two tiles separated by
\* two empty cells and whose second row holds a tile after an empty cell.
C11_Witness ==
    /\ probe.kind = "allText"
    /\ OccupiedCols(gridState, 0) = {0, GRID_COLS - 1}
    /\ GRID_COLS - 1 >= 3
    /\ OccupiedCols(gridState, 1) = {1}
    /\ probe.result = <<gridState[0].char, " ", gridState[GRID_COLS - 1].char,
                        ".", " ", gridState[GRID_COLS + 1].char>>

(* -------------------------------- C12 ---------------------------------- *)

RECURSIVE RowSegments(_, _)
\* The pieces of text between its ". " separators, the piece in progress first.
RowSegments(text, piece) ==
    IF Len(text) = 0 THEN {piece}
    ELSE IF Len(text) >= 2 /\ text[1] = "." /\ text[2] = " "
    THEN {piece} \cup RowSegments(SubSeq(text, 3, Len(text)), <<>>)
    ELSE RowSegments(Tail(text), Append(piece, text[1]))

\* C12: getAllText of the empty GridState is the empty text, and no row segment
\* of getAllText(state) starts with a space, ends with a space or has two
\* spaces in a row.
C12_AllTextSpacing ==
    probe.kind = "allText" =>
        /\ gridState = EmptyGrid => probe.result = <<>>
        /\ \A seg \in RowSegments(probe.result, <<>>) :
              Len(seg) > 0 =>
                 /\ seg[1] # " "
                 /\ seg[Len(seg)] # " "
                 /\ \A i \in 1 .. (Len(seg) - 1) : ~(seg[i] = " " /\ seg[i + 1] = " ")

\* The text of a board was computed whose first row starts and ends with empty
\* cells and whose second row has a gap between two tiles and an empty end.
C12_Witness ==
    /\ probe.kind = "allText"
    /\ OccupiedCols(gridState, 0) = {1}
    /\ OccupiedCols(gridState, 1) = {0, 2}
    /\ RowSegments(probe.result, <<>>) =
          {<<gridState[1].char>>,
           <<gridState[GRID_COLS].char, " ", gridState[GRID_COLS + 2].char>>}

(* -------------------------------- C13 ---------------------------------- *)

\* op is a drag end over a cell target whose index is out of range or missing.
OntoForeignCell(op) ==
    /\ op.kind = "dragEnd"
    /\ op.over # NoOver
    /\ op.over.id = "cell"
    /\ ("index" \in DOMAIN op.over => op.over.index \notin Cells)

\* C13: a drag end over a cell target whose index is outside [0, TOTAL_CELLS)
\* or missing changes neither the GridState nor the History and makes no speak
\* call, whatever the origin of the payload.
C13_ForeignTargetIsNoOp ==
    [][OntoForeignCell(lastOp') =>
          /\ gridState' = gridState
          /\ history' = history
          /\ spoken' = <<>>]_vars

\* The part of C13 about a cell target without an index: that drag end changes
\* neither the GridState nor the History and makes no speak call.
C13_NoIndexIsNoOp ==
    [][OntoForeignCell(lastOp') /\ "index" \notin DOMAIN lastOp'.over =>
          /\ gridState' = gridState
          /\ history' = history
          /\ spoken' = <<>>]_vars

(* -------------------------------- C14 ---------------------------------- *)

MessageShown == page.errorDivs # <<>> \/ page.innerText # <<>>

\* C15: once the entry script has ended, either the application is rendered or
\* a message is shown; when the mount point is missing, or mounting threw, a
\* message is shown.
C15_FailureIsShown ==
    page.pc \in {"done", "aborted"} =>
        /\ page.rendered \/ MessageShown
        /\ ~page.rendered => MessageShown
        /\ ~page.hasRoot => MessageShown

\* The entry script has ended on a page without #root, with the error shown.
C15_Witness ==
    /\ page.pc = "aborted"
    /\ ~page.hasRoot
    /\ ~page.rendered
    /\ page.errorDivs = <<<<"Error: ", "Could not find root element to mount to">>>>

(* -------------------------------- C16 ---------------------------------- *)

\* C16: every drag end, whatever its payload and drop target, clears the active
\* payload and the captured size and plays exactly one cue, 'drop'; the active
\* payload is null at the start, and after every event it is non-null exactly
\* when the event is a drag start, or is not a drag end and the payload was
\* non-null before: it is non-null exactly between a drag start and the next
\* drag end.
C16_DragEndClears ==
    /\ activeDragData = Null
    /\ [][/\ lastOp'.kind = "dragEnd" =>
                /\ activeDragData # Null
                /\ activeDragData' = Null
                /\ dragSize' = Null
                /\ sounds' = <<"drop">>
          /\ activeDragData' # Null <=>
                \/ lastOp'.kind = "dragStart"
                \/ lastOp'.kind # "dragEnd" /\ activeDragData # Null]_vars

\* A drag of a grid tile has ended over a cell index out of range.
C16_Witness ==
    /\ lastOp.kind = "dragEnd"
    /\ lastOp.data.origin = "grid"
    /\ OntoForeignCell(lastOp)
    /\ "index" \in DOMAIN lastOp.over
    /\ activeDragData = Null
    /\ dragSize = Null
    /\ sounds = <<"drop">>

(* -------------------------------- C17 ---------------------------------- *)

\* C17: a drag start records its payload as the active drag, plays exactly one
\* cue, 'rustle' for a grid payload and 'grab' for a keyboard payload, leaves
\* the GridState and the History unchanged and makes no speak call.
C17_DragStartFrame ==
    [][lastOp'.kind = "dragStart" =>
          /\ activeDragData' = lastOp'.data
          /\ sounds' = <<IF lastOp'.data.origin = "grid" THEN "rustle" ELSE "grab">>
          /\ gridState' = gridState
          /\ history' = history
          /\ spoken' = <<>>]_vars

\* A grid tile has just been lifted from a board with history.
C17_Witness ==
    /\ lastOp.kind = "dragStart"
    /\ lastOp.data.origin = "grid"
    /\ activeDragData = lastOp.data
    /\ sounds = <<"rustle">>
    /\ history # <<>>

(* -------------------------------- C18 ---------------------------------- *)

\* op is a drag end over no drop target, or of a keyboard payload over the
\* keyboard area.
RejectedDrag(op) ==
    /\ op.kind = "dragEnd"
    /\ \/ op.over = NoOver
       \/ op.over = KeyboardAreaTarget /\ op.data.origin = "keyboard"

\* C18: a drag end with no drop target, and a drag end of a keyboard payload
\* over the keyboard area, change neither the GridState nor the History and
\* make no speak call.
C18_RejectedDragFrame ==
    [][RejectedDrag(lastOp') =>
          /\ gridState' = gridState
          /\ history' = history
          /\ spoken' = <<>>]_vars

\* A keyboard key was dropped back on the keyboard area, over a board with a
\* tile and a history.
C18_Witness ==
    /\ lastOp.kind = "dragEnd"
    /\ lastOp.over = KeyboardAreaTarget
    /\ lastOp.data.origin = "keyboard"
    /\ gridState # EmptyGrid
    /\ history # <<>>

(* -------------------------------- C19 ---------------------------------- *)

\* C19: a keyboard payload dropped onto cell t puts the new tile at t, leaves
\* every other cell unchanged, and the id of the tile that was at t before, if
\* any, is in no cell afterwards; the number of occupied cells grows by one when
\* t was empty and is unchanged when t was occupied.
C19_CloneOverwrites ==
    [][KeyboardOntoCell(lastOp') =>
          LET t == lastOp'.over.index
          IN /\ Has(gridState', t)
             /\ gridState'[t].char = lastOp'.data.char
             /\ gridState'[t].id \notin IdsOf(gridState)
             /\ SameOutside(gridState, gridState', {t})
             /\ Has(gridState, t) => gridState[t].id \notin IdsOf(gridState')
             /\ Cardinality(DOMAIN gridState') =
                    Cardinality(DOMAIN gridState) + (IF Has(gridState, t) THEN 0 ELSE 1)]_vars

(* -------------------------------- C20 ---------------------------------- *)

\* C20: a click on occupied cell i makes exactly one speak call: with the text
\* of the whole board when i is in column 0 or cell i - 1 is empty, and with the
\* character of cell i otherwise; it changes neither the GridState nor the
\* History.
C20_ClickSpeaks ==
    [][lastOp'.kind = "click" =>
          LET i == lastOp'.index
          IN /\ Has(gridState, i)
             /\ Len(spoken') = 1
             /\ spoken'[1] = (IF i % GRID_COLS = 0 \/ ~Has(gridState, i - 1)
                              THEN getAllText(gridState)
                              ELSE <<gridState[i].char>>)
             /\ gridState' = gridState
             /\ history' = history]_vars

\* The tile clicked is not in column 0, the cell to its left is empty, there
\* are other tiles on the board, and the text of the whole board was spoken.
C20_Witness ==
    /\ lastOp.kind = "click"
    /\ lastOp.index % GRID_COLS # 0
    /\ Has(gridState, lastOp.index)
    /\ ~Has(gridState, lastOp.index - 1)
    /\ Cardinality(DOMAIN gridState) >= 2
    /\ spoken = <<getAllText(gridState)>>
    /\ Len(spoken[1]) >= 3

(* -------------------------------- C21 ---------------------------------- *)

\* C21: a clear of a non-empty grid appends the GridState before it to the
\* History and leaves the grid empty; an undo that comes right after such a
\* clear restores exactly the GridState before the clear, and the History
\* before the clear.
C21_ClearThenUndo ==
    [][/\ lastOp'.kind = "clear" /\ gridState # EmptyGrid =>
             /\ history' = Append(history, gridState)
             /\ gridState' = EmptyGrid
       /\ lastOp.kind = "clear" /\ lastOp.before # EmptyGrid /\ lastOp'.kind = "undo" =>
             /\ gridState' = lastOp.before
             /\ Append(history', lastOp.before) = history]_vars

\* A board of two tiles has just been cleared, with a history before it: the
\* grid is empty and the top of the History is the board before the clear.
C21_Witness ==
    /\ lastOp.kind = "clear"
    /\ Cardinality(DOMAIN lastOp.before) = 2
    /\ gridState = EmptyGrid
    /\ Len(history) = 3
    /\ history[3] = lastOp.before
    /\ sounds = <<"rustle">>

(* -------------------------------- C22 ---------------------------------- *)

\* C22: a clear of an empty grid leaves the grid empty and the History
\* unchanged, and plays no cue.
C22_ClearOnEmptyIsNoOp ==
    [][lastOp'.kind = "clear" /\ gridState = EmptyGrid =>
          /\ gridState' = EmptyGrid
          /\ history' = history
          /\ sounds' = <<>>]_vars

\* Clear was pressed on a grid that a delete had emptied: the History holds the
\* two snapshots of the placement and the delete, and no more.
C22_Witness ==
    /\ lastOp.kind = "clear"
    /\ lastOp.before = EmptyGrid
    /\ gridState = EmptyGrid
    /\ Len(history) = 2
    /\ sounds = <<>>

(* -------------------------------- C23 ---------------------------------- *)

\* C23: with undo and clear free to fire while a drag is active, at every drag
\* end of a grid payload the GridState still holds at the payload's source
\* index a tile with the payload's id and char, and after the drag end no two
\* cells hold the same id.
C23_PayloadStillOnBoard ==
    [][lastOp'.kind = "dragEnd" /\ lastOp'.data.origin = "grid" =>
          LET data == lastOp'.data
          IN /\ Has(gridState, data.index)
             /\ gridState[data.index] = [char |-> data.char, id |-> data.id]
             /\ Cardinality(IdsOf(gridState')) = Cardinality(DOMAIN gridState')]_vars

(* -------------------------------- C24 ---------------------------------- *)

\* The droppables whose rectangle contains the pointer of the call.
PointerHits(args) ==
    {DroppableContainers[k] : k \in
        {j \in DOMAIN DroppableContainers :
            /\ args.pointerCoordinates # Null
            /\ isPointWithinRect(args.pointerCoordinates,
                                 RectOf(DroppableContainers[j]))}}

\* The elements of a sequence.
Range(seq) == {seq[k] : k \in DOMAIN seq}

\* C24: when some droppable contains the pointer, the collision policy returns
\* exactly the droppables that contain it, each once, and none that is merely
\* near; when none contains it (or the pointer is unknown), it returns every
\* droppable, each once, in the order of the distance of their centres from the
\* centre of the dragged item, nearest first.
C24_PointerHitsFirst ==
    probe.kind = "collision" =>
        LET hits == PointerHits(probe.args)
            result == probe.result
        IN /\ hits # {} =>
                /\ Range(result) = hits
                /\ Len(result) = Cardinality(hits)
           /\ hits = {} =>
                /\ Range(result) = Range(DroppableContainers)
                /\ Len(result) = Len(DroppableContainers)
                /\ \A i, j \in DOMAIN result :
                      i < j => CenterDistance(probe.args.collisionRect, RectOf(result[i]))
                                  <= CenterDistance(probe.args.collisionRect, RectOf(result[j]))

\* The pointer is in the gap between cells 0 and 1, in no droppable, and the
\* dragged item lies over cell 1: every droppable is returned, cell 1 first.
C24_Witness ==
    /\ probe.kind = "collision"
    /\ probe.args.pointerCoordinates = [x |-> CellSide + 1, y |-> 0]
    /\ PointerHits(probe.args) = {}
    /\ probe.args.collisionRect = RectOf(CellTarget(1))
    /\ Len(probe.result) = TOTAL_CELLS + 1
    /\ probe.result[1] = CellTarget(1)

====
